---- MODULE Spec2Model ----
(***************************************************************************)
(* Pulsii: a WebSocket relay (server.js) and a canvas client (script.js,   *)
(* and its DOM-handle revision).  The relay validates every inbound frame  *)
(* and fans the valid ones out to every open connection; the client spawns *)
(* pulses locally, sends them upstream, spawns the relayed ones, and       *)
(* reconnects after every close.                                           *)
(*                                                                         *)
(* Spec        the relay: connections, inbound frames, fan-out.            *)
(***************************************************************************)
EXTENDS Integers, Sequences, FiniteSets, TLC

(***************************************************************************)
(* Bounds of the model.                                                    *)
(***************************************************************************)
\* connection slots of the relay (a slot is reused after its close)
MaxConns == 2
\* inbound frames the relay handles in one behaviour
MaxHandled == 2

Conns == 1..MaxConns

(***************************************************************************)
(* JavaScript values as they come out of JSON.parse.  A number is an exact *)
(* rational n/d, or one of the non-finite doubles (the JSON literal 1e999  *)
(* parses to Infinity).                                                    *)
(***************************************************************************)
Fin(n, d) == [k |-> "fin", n |-> n, d |-> d]
PosInf == [k |-> "inf", n |-> 1, d |-> 1]
NegInf == [k |-> "ninf", n |-> -1, d |-> 1]
NaN == [k |-> "nan", n |-> 0, d |-> 1]

Undefined == [t |-> "undefined", num |-> NaN, str |-> ""]
Null == [t |-> "null", num |-> NaN, str |-> ""]
Num(q) == [t |-> "number", num |-> q, str |-> ""]
Str(s) == [t |-> "string", num |-> NaN, str |-> s]
Bool(b) == [t |-> "boolean", num |-> NaN, str |-> IF b THEN "true" ELSE "false"]
Nested == [t |-> "object", num |-> NaN, str |-> ""]

\* the typeof operator: typeof null is "object"
TypeOf(v) == IF v.t = "null" THEN "object" ELSE v.t

\* the === operator on the values above (NaN is not equal to itself)
StrictEq(a, b) ==
    /\ a.t = b.t
    /\ CASE a.t = "number" ->
              /\ a.num.k # "nan" /\ b.num.k # "nan"
              /\ a.num.k = b.num.k
              /\ a.num.n * b.num.d = b.num.n * a.num.d
         [] a.t = "string" -> a.str = b.str
         [] a.t = "boolean" -> a.str = b.str
         [] a.t = "object" -> FALSE
         [] OTHER -> TRUE

(***************************************************************************)
(* A text frame.  wf: whether the text is well-formed JSON; top: the kind  *)
(* of the top-level JSON value; fields: the properties of a top-level      *)
(* object that the programs read, and one more (extra) that they do not.   *)
(***************************************************************************)
NoFields ==
    [type |-> Undefined, xNorm |-> Undefined, yNorm |-> Undefined,
     color |-> Undefined, extra |-> Undefined]

Obj(ty, x, y, c, e) ==
    [wf |-> TRUE, top |-> "object",
     fields |-> [type |-> ty, xNorm |-> x, yNorm |-> y, color |-> c, extra |-> e]]

Top(kind) == [wf |-> TRUE, top |-> kind, fields |-> NoFields]

BadJson == [wf |-> FALSE, top |-> "none", fields |-> NoFields]

Half == Num(Fin(1, 2))

\* the text frames a peer may put on a connection
Frames ==
    { BadJson,
      Top("null"), Top("number"), Top("string"), Top("array"),
      Obj(Undefined, Undefined, Undefined, Undefined, Undefined),
      Obj(Str("pulse"), Half, Half, Undefined, Undefined),
      Obj(Str("pulse"), Str("0.5"), Half, Str("#ff0000"), Undefined),
      Obj(Str("pulse"), Half, Null, Str("#ff0000"), Undefined),
      Obj(Str("ping"), Half, Half, Str("#ff0000"), Undefined),
      Obj(Str("pulse"), Half, Half, Nested, Undefined),
      Obj(Str("pulse"), Half, Num(Fin(3, 2)), Str("#00ff00"), Str("id-7")),
      Obj(Str("pulse"), Num(PosInf), Half, Str("#ff0000"), Undefined) }

(***************************************************************************)
(* The relay (server.js).                                                  *)
(***************************************************************************)
VARIABLES
    clients,      \* wss.clients, in insertion order (a Set iterates in that order)
    readyState,   \* readyState of each connection slot, as the relay sees it
    linkUp,       \* whether the transport under the connection still carries data
    recv,         \* per connection: the frames its peer has been sent, in order
    handled,      \* number of inbound frames handled so far
    processed,    \* number of frames broadcast so far (history)
    openedAt,     \* per connection: value of processed when it was opened (history)
    closedAt,     \* per connection: value of processed when it stopped being open, or -1
    last,         \* the last handler that ran and what it did (history)
    portEnv,      \* process.env.PORT: whether it is set, and its text as decimal digits
    bound,        \* the ports other processes hold on the host
    listening     \* the state of the HTTP server and the port it asked for

bootVars == <<portEnv, bound, listening>>

relayVars ==
    <<clients, readyState, linkUp, recv, handled, processed, openedAt, closedAt, last,
      portEnv, bound, listening>>

Range(s) == { s[i] : i \in 1..Len(s) }

Idle == [kind |-> "init", conn |-> 0, valid |-> FALSE, sent |-> <<>>]

\* JSON.parse(data) returns (otherwise it throws and the catch swallows it)
JsonParses(data) == data.wf

\* const { type, xNorm, yNorm, color } = parsed || {}
Destructure(data) == IF data.top = "object" THEN data.fields ELSE NoFields

\* the schema check without the test of color
isPulseNoColor(f) ==
    /\ StrictEq(f.type, Str("pulse"))
    /\ TypeOf(f.xNorm) = "number"
    /\ TypeOf(f.yNorm) = "number"

isPulse(f) ==
    /\ StrictEq(f.type, Str("pulse"))
    /\ TypeOf(f.xNorm) = "number"
    /\ TypeOf(f.yNorm) = "number"
    /\ TypeOf(f.color) = "string"

\* JSON.stringify of one property value: a non-finite number is written as null
JsonValue(v) == IF v.t = "number" /\ v.num.k # "fin" THEN Null ELSE v

\* a relay that forwards the pulse without its type
StringifyUntyped(f) ==
    Obj(Undefined, JsonValue(f.xNorm), JsonValue(f.yNorm), JsonValue(f.color), Undefined)

\* JSON.stringify({ type, xNorm, yNorm, color })
Stringify(f) ==
    Obj(JsonValue(f.type), JsonValue(f.xNorm), JsonValue(f.yNorm), JsonValue(f.color),
        Undefined)

\* broadcast without the readyState test
broadcastAnyState(data) == clients

\* broadcast that stops after its first send
broadcastFirstOnly(data) ==
    LET open == SelectSeq(clients, LAMBDA c : readyState[c] = "OPEN")
    IN IF open = <<>> THEN <<>> ELSE <<Head(open)>>

RECURSIVE UpToFirstFailure(_)
UpToFirstFailure(s) ==
    IF s = <<>> THEN <<>>
    ELSE IF ~linkUp[Head(s)] THEN <<Head(s)>>
    ELSE <<Head(s)>> \o UpToFirstFailure(Tail(s))

\* broadcast whose forEach is left at the first send that fails
broadcastAborting(data) ==
    UpToFirstFailure(SelectSeq(clients, LAMBDA c : readyState[c] = "OPEN"))

\* the connections broadcast calls send on, in the order of the calls
broadcast(data) == SelectSeq(clients, LAMBDA c : readyState[c] = "OPEN")

\* send that puts the frame in front of the frames already written
sendFront(c, entry) == IF linkUp[c] THEN <<entry>> \o recv[c] ELSE recv[c]

\* client.send(data): the frame reaches the peer if the transport still works;
\* on a dead transport the call returns and the frame is lost
send(c, entry) == IF linkUp[c] THEN Append(recv[c], entry) ELSE recv[c]

\* the effect of the forEach of broadcast on what the peers receive
FanOut(targets, entry) ==
    [c \in Conns |-> IF c \in Range(targets) THEN send(c, entry) ELSE recv[c]]

\* process.env.PORT when the variable is not set
NoPortEnv == [set |-> FALSE, text |-> <<>>]

\* the number a string of decimal digits denotes
RECURSIVE DecimalValue(_)
DecimalValue(text) ==
    IF text = <<>> THEN 0
    ELSE 10 * DecimalValue(SubSeq(text, 1, Len(text) - 1)) + text[Len(text)]

\* const HTTP_PORT = process.env.PORT || 3000, as the number listen() makes of it:
\* an unset variable and the empty string are falsy
HTTP_PORT(env) ==
    IF env.set /\ env.text # <<>> THEN DecimalValue(env.text) ELSE 3000

Starting == [state |-> "starting", port |-> 0]

\* the module has been loaded and no socket has connected
NoConnections ==
    /\ clients = <<>>
    /\ readyState = [c \in Conns |-> "CLOSED"]
    /\ linkUp = [c \in Conns |-> FALSE]
    /\ recv = [c \in Conns |-> <<>>]
    /\ handled = 0
    /\ processed = 0
    /\ openedAt = [c \in Conns |-> 0]
    /\ closedAt = [c \in Conns |-> 0]
    /\ last = Idle

\* server.listen(HTTP_PORT, HOST, ...): the server binds the port, or the bind
\* fails with EADDRINUSE; no 'error' listener is registered and nothing retries
Listen ==
    /\ listening = Starting
    /\ LET port == HTTP_PORT(portEnv)
       IN listening' = [state |-> IF port \in bound THEN "EADDRINUSE" ELSE "listening",
                        port |-> port]
    /\ UNCHANGED <<clients, readyState, linkUp, recv, handled, processed, openedAt,
                   closedAt, last, portEnv, bound>>

\* the relay is up on its default port
RelayInit ==
    /\ NoConnections
    /\ portEnv = NoPortEnv
    /\ bound = {}
    /\ listening = [state |-> "listening", port |-> HTTP_PORT(NoPortEnv)]

\* wss.on('connection'): the handshake is done and the socket joins wss.clients
OnConnection(c) ==
    /\ readyState[c] = "CLOSED"
    /\ clients' = Append(clients, c)
    /\ readyState' = [readyState EXCEPT ![c] = "OPEN"]
    /\ linkUp' = [linkUp EXCEPT ![c] = TRUE]
    /\ recv' = [recv EXCEPT ![c] = <<>>]
    /\ openedAt' = [openedAt EXCEPT ![c] = processed]
    /\ closedAt' = [closedAt EXCEPT ![c] = -1]
    /\ last' = Idle
    /\ UNCHANGED <<handled, processed>>
    /\ UNCHANGED bootVars

\* socket.on('message')
OnMessage(c, data) ==
    /\ readyState[c] = "OPEN"
    /\ handled < MaxHandled
    /\ handled' = handled + 1
    /\ LET ok == JsonParses(data) /\ isPulse(Destructure(data))
           targets == IF ok THEN broadcast(data) ELSE <<>>
           entry == [seq |-> processed + 1, frame |-> Stringify(Destructure(data)),
                     orig |-> data]
       IN /\ recv' = IF ok THEN FanOut(targets, entry) ELSE recv
          /\ processed' = IF ok THEN processed + 1 ELSE processed
          /\ last' = [kind |-> "message", conn |-> c, valid |-> ok, sent |-> targets]
    /\ UNCHANGED <<clients, readyState, linkUp, openedAt, closedAt>>
    /\ UNCHANGED bootVars

\* the transport under an open connection fails; the relay has not noticed yet
LinkDown(c) ==
    /\ readyState[c] = "OPEN"
    /\ linkUp[c]
    /\ linkUp' = [linkUp EXCEPT ![c] = FALSE]
    /\ closedAt' = [closedAt EXCEPT ![c] = IF @ = -1 THEN processed ELSE @]
    /\ last' = Idle
    /\ UNCHANGED <<clients, readyState, recv, handled, processed, openedAt>>
    /\ UNCHANGED bootVars

\* the peer starts the closing handshake: the socket leaves OPEN but stays in wss.clients
OnCloseFrame(c) ==
    /\ readyState[c] = "OPEN"
    /\ linkUp[c]
    /\ readyState' = [readyState EXCEPT ![c] = "CLOSING"]
    /\ closedAt' = [closedAt EXCEPT ![c] = IF @ = -1 THEN processed ELSE @]
    /\ last' = Idle
    /\ UNCHANGED <<clients, linkUp, recv, handled, processed, openedAt>>
    /\ UNCHANGED bootVars

\* socket.on('close'): the socket is closed and has left wss.clients
OnClose(c) ==
    /\ readyState[c] = "CLOSING" \/ (readyState[c] = "OPEN" /\ ~linkUp[c])
    /\ readyState' = [readyState EXCEPT ![c] = "CLOSED"]
    /\ linkUp' = [linkUp EXCEPT ![c] = FALSE]
    /\ clients' = SelectSeq(clients, LAMBDA d : d # c)
    /\ recv' = [recv EXCEPT ![c] = <<>>]
    /\ openedAt' = [openedAt EXCEPT ![c] = 0]
    /\ closedAt' = [closedAt EXCEPT ![c] = 0]
    /\ last' = Idle
    /\ UNCHANGED <<handled, processed>>
    /\ UNCHANGED bootVars

(***************************************************************************)
(* Arithmetic of the client on JavaScript numbers.  The arithmetic is      *)
(* exact: the rounding of doubles is not modelled; division by zero and    *)
(* NaN are.                                                                *)
(***************************************************************************)
Zero == Fin(0, 1)
One == Fin(1, 1)

\* a < b for numbers that are not NaN
NumLess(a, b) ==
    CASE a.k = "ninf" -> b.k # "ninf"
      [] a.k = "inf" -> FALSE
      [] b.k = "ninf" -> FALSE
      [] b.k = "inf" -> TRUE
      [] OTHER -> a.n * b.d < b.n * a.d

\* Math.min(a, b) and Math.max(a, b): NaN if either argument is NaN
MathMin(a, b) ==
    IF a.k = "nan" \/ b.k = "nan" THEN NaN ELSE IF NumLess(b, a) THEN b ELSE a

MathMax(a, b) ==
    IF a.k = "nan" \/ b.k = "nan" THEN NaN ELSE IF NumLess(a, b) THEN b ELSE a

\* a * w for a number a and a finite w >= 0
NumMul(a, w) ==
    CASE a.k = "nan" -> NaN
      [] a.k = "fin" -> Fin(a.n * w.n, a.d * w.d)
      [] OTHER -> IF w.n = 0 THEN NaN ELSE a

\* a / w for a number a and a finite w >= 0
NumDiv(a, w) ==
    CASE a.k = "nan" -> NaN
      [] a.k = "fin" ->
            IF w.n # 0 THEN Fin(a.n * w.d, a.d * w.n)
            ELSE IF a.n = 0 THEN NaN
            ELSE IF a.n > 0 THEN PosInf ELSE NegInf
      [] OTHER -> a

(***************************************************************************)
(* The client (script.js, and its revision with a DOM handle for the       *)
(* colour picker).  Lengths are in tenths of a CSS pixel, the device pixel *)
(* ratio in quarters, canvas.width and canvas.height in device pixels.     *)
(***************************************************************************)
\* pulses the collection may hold before the model stops adding
MaxPulses == 2
\* connection attempts the history counter distinguishes
MaxAttempts == 2

\* colorPicker.radius and colorPicker.margin, in tenths of a pixel
PickerRadius == 200
PickerMargin == 240
\* the delay of the reconnect timer, in ms
RECONNECT_DELAY == 500
\* the distance below which a released drag opens the picker, in tenths of a pixel
DRAG_THRESHOLD == 30
\* pixels per second the radius expands
GROWTH_RATE == 420
\* the time a pulse lives, in ms
PULSE_LIFETIME == 1400
\* the cap of deltaSec, in ms
MAX_STEP == 50
\* the frames the history counter of a pulse distinguishes
MaxFrames == 29

\* now - lastTime of an animation frame, in ms
FrameGaps == {25, 50, 1000}

Variants == {"canvas", "handle"}

\* viewports: 300 x 200 at ratio 1, 301.1 x 200.3 at ratio 1.25, and a surface of no size
Viewports ==
    { [w |-> 3000, h |-> 2000, r |-> 4],
      [w |-> 3011, h |-> 2003, r |-> 5],
      [w |-> 0, h |-> 0, r |-> 4] }

PointerIds == {1, 2}
TouchIds == {0, 1}
SockIds == {1, 2}
NoId == -1

\* the frames a server may put on the client's connection
PeerFrames ==
    { BadJson,
      Top("null"),
      Obj(Str("pulse"), Half, Half, Undefined, Undefined),
      Obj(Str("pulse"), Half, Null, Str("#ff0000"), Undefined),
      Obj(Str("pulse"), Half, Num(Fin(3, 2)), Str("#00ff00"), Undefined),
      Obj(Str("pulse"), Num(Fin(-1, 4)), Num(Fin(1, 4)), Str("#0000ff"), Undefined) }

VARIABLES
    variant,      \* which of the two client scripts runs
    view,         \* cssWidth, cssHeight, deviceRatio, canvas.width, canvas.height
    colorPicker,  \* x, y, isDragging, pointerId, dragStart, pointerStart of the picker; family of the drag's owner (history)
    inputValue,   \* colorPicker.input.value
    pointers,     \* per pointer id: "up", or the element its pointerdown went to
    fingers,      \* the active touches (event.touches), oldest first
    pulses,       \* the active pulse collection
    socket,       \* the socket the variable socket refers to
    socks,        \* readyState of every WebSocket object the client created
    timers,       \* the pending reconnect timers, each with its delay
    attempts,     \* calls of connectWebSocket so far, up to MaxAttempts (history)
    upstream,     \* the frames handed to socket.send, in order (history)
    serverUp,     \* whether the server accepts connections
    inbound,      \* what the listener did with the last payload: "none", "discarded", "spawned", "recovered" (history)
    frame,        \* the animation frame that ran last: gap, step, drawn, removed (history)
    opened        \* whether the input event handled last called openColorPicker (history)

clientVars ==
    <<variant, view, colorPicker, inputValue, pointers, fingers, pulses, socket, socks,
      timers, attempts, upstream, serverUp, inbound, frame, opened>>

\* Math.round of a non-negative quantity given as n / d
MathRound(n, d) == (2 * n + d) \div (2 * d)

\* resizeCanvas: the sizes derived from the viewport
SizedView(vp) ==
    [cssWidth |-> vp.w, cssHeight |-> vp.h, deviceRatio |-> vp.r,
     canvasWidth |-> MathRound(vp.w * vp.r, 40),
     canvasHeight |-> MathRound(vp.h * vp.r, 40)]

Max2(a, b) == IF a > b THEN a ELSE b
Min2(a, b) == IF a < b THEN a ELSE b

\* a clamp whose upper limit is the size less the radius, also on a surface
\* narrower than the handle
positionColorPickerNoFloor(cp, v) ==
    [cp EXCEPT
       !.x = Min2(Max2(PickerRadius, cp.x), v.cssWidth - PickerRadius),
       !.y = Min2(Max2(PickerRadius, cp.y), v.cssHeight - PickerRadius)]

\* positionColorPicker, for a picker whose x and y are set
positionColorPicker(cp, v) ==
    [cp EXCEPT
       !.x = Min2(Max2(PickerRadius, cp.x), Max2(PickerRadius, v.cssWidth - PickerRadius)),
       !.y = Min2(Max2(PickerRadius, cp.y), Max2(PickerRadius, v.cssHeight - PickerRadius))]

\* positionColorPicker on the first call, when x and y are null
InitialPicker(v) ==
    positionColorPicker(
        [x |-> PickerMargin + PickerRadius,
         y |-> v.cssHeight - (PickerMargin + PickerRadius),
         isDragging |-> FALSE, pointerId |-> NoId, family |-> "none",
         dragStartX |-> 0, dragStartY |-> 0, pointerStartX |-> 0, pointerStartY |-> 0], v)

isInsideColorPicker(localX, localY) ==
    LET dx == localX - colorPicker.x
        dy == localY - colorPicker.y
    IN dx * dx + dy * dy <= PickerRadius * PickerRadius

\* getPointerPosition / getTouchPosition: normX and normY of a point
NormX(x) == NumDiv(Fin(x * view.deviceRatio, 40), Fin(view.canvasWidth, 1))
NormY(y) == NumDiv(Fin(y * view.deviceRatio, 40), Fin(view.canvasHeight, 1))

\* where a pointer or finger can come down: the last whole pixel inside the
\* surface, and the centre of the picker
Points ==
    IF view.cssWidth = 0 \/ view.cssHeight = 0 THEN {}
    ELSE { [x |-> ((view.cssWidth - 1) \div 10) * 10,
            y |-> ((view.cssHeight - 1) \div 10) * 10],
           [x |-> colorPicker.x, y |-> colorPicker.y] }

\* where a pointer or finger can move to: the place the picker has after
\* init, 2 pixels to the left and 10 pixels to the right of it
MovePoints ==
    LET home == InitialPicker(view)
    IN IF view.cssWidth = 0 \/ view.cssHeight = 0 THEN {}
       ELSE { [x |-> home.x, y |-> home.y],
              [x |-> home.x - 20, y |-> home.y],
              [x |-> home.x + 100, y |-> home.y] }

SocketOpen == socket # NoId /\ socks[socket] = "OPEN"

\* a spawnPulse that puts the new pulse in front (unshift)
spawnPulseInFront(normX, normY, colorHex, origin, rx, ry) ==
    <<[normX |-> normX, normY |-> normY, colorHex |-> colorHex,
       radius |-> 0, age |-> 0, frames |-> 0,
       origin |-> origin, rx |-> rx, ry |-> ry]>> \o pulses

\* spawnPulse (the colour is kept as the string; age is in ms and radius in
\* thousandths of a pixel; frames, origin and rx, ry are history)
spawnPulse(normX, normY, colorHex, origin, rx, ry) ==
    Append(pulses, [normX |-> normX, normY |-> normY, colorHex |-> colorHex,
                    radius |-> 0, age |-> 0, frames |-> 0,
                    origin |-> origin, rx |-> rx, ry |-> ry])

\* JSON.stringify({ type: 'pulse', xNorm: normX, yNorm: normY, color: colorHex })
PulseMessage(normX, normY, colorHex) ==
    Obj(Str("pulse"), JsonValue(Num(normX)), JsonValue(Num(normY)), Str(colorHex),
        Undefined)

sendPulse(normX, normY, colorHex) ==
    /\ pulses' = spawnPulse(normX, normY, colorHex, "local", NaN, NaN)
    /\ upstream' = IF SocketOpen
                   THEN Append(upstream, PulseMessage(normX, normY, colorHex))
                   ELSE upstream

\* Math.hypot(colorPicker.x - dragStartX, colorPicker.y - dragStartY) < 3
MovedLessThanThreshold(cp) ==
    LET dx == cp.x - cp.dragStartX
        dy == cp.y - cp.dragStartY
    IN dx * dx + dy * dy < DRAG_THRESHOLD * DRAG_THRESHOLD

\* the start of a drag: handlePointerDown / handleTouchStart inside the picker,
\* startPickerDrag
StartDrag(id, x, y, family) ==
    /\ colorPicker' = [colorPicker EXCEPT !.isDragging = TRUE, !.pointerId = id,
                                          !.family = family,
                                          !.dragStartX = colorPicker.x,
                                          !.dragStartY = colorPicker.y,
                                          !.pointerStartX = x,
                                          !.pointerStartY = y]
    /\ UNCHANGED <<pulses, upstream>>

\* finishColorPickerDrag; the guards of the picker's pointer handlers and of
\* handlePickerTouchEnd followed by endPickerDrag
FinishDrag(id, shouldTriggerPicker) ==
    IF colorPicker.isDragging /\ id = colorPicker.pointerId
    THEN /\ colorPicker' = [colorPicker EXCEPT !.isDragging = FALSE, !.pointerId = NoId,
                                               !.family = "none"]
         /\ opened' = (shouldTriggerPicker /\ MovedLessThanThreshold(colorPicker))
    ELSE /\ colorPicker' = colorPicker
         /\ opened' = FALSE

\* endPickerDrag
endPickerDrag(triggerPicker) ==
    IF colorPicker.isDragging
    THEN /\ colorPicker' = [colorPicker EXCEPT !.isDragging = FALSE, !.pointerId = NoId,
                                               !.family = "none"]
         /\ opened' = (triggerPicker /\ MovedLessThanThreshold(colorPicker))
    ELSE /\ colorPicker' = colorPicker
         /\ opened' = FALSE

\* handlePointerMove after its guard, the body of handleTouchMove, movePickerDrag
movePickerDrag(x, y) ==
    colorPicker' =
        positionColorPicker(
            [colorPicker EXCEPT !.x = colorPicker.dragStartX + (x - colorPicker.pointerStartX),
                                !.y = colorPicker.dragStartY + (y - colorPicker.pointerStartY)],
            view)

\* the input event that is handled changes nothing of the picker
Ignored == colorPicker' = colorPicker /\ opened' = FALSE

inputVars == <<colorPicker, pointers, fingers, opened>>
netVars == <<socket, socks, timers, attempts, serverUp>>

\* window resize: resizeCanvas
Resize(vp) ==
    /\ SizedView(vp) # view
    /\ view' = SizedView(vp)
    /\ colorPicker' = positionColorPicker(colorPicker, SizedView(vp))
    /\ UNCHANGED <<variant, inputValue, pointers, fingers, opened, pulses, upstream>>
    /\ UNCHANGED netVars
    /\ UNCHANGED <<inbound, frame>>

\* pointerdown: handlePointerDown, or handleCanvasPointerDown / handlePickerPointerDown
PointerDown(id, pt) ==
    /\ pointers[id] = "up"
    /\ pt \in Points
    /\ Len(pulses) < MaxPulses
    /\ LET inside == isInsideColorPicker(pt.x, pt.y)
       IN /\ IF variant = "canvas"
             THEN IF inside THEN StartDrag(id, pt.x, pt.y, "pointer")
                  ELSE /\ sendPulse(NormX(pt.x), NormY(pt.y), inputValue)
                       /\ UNCHANGED colorPicker
             ELSE IF inside THEN StartDrag(id, pt.x, pt.y, "pointer")
                  ELSE IF colorPicker.isDragging
                       THEN UNCHANGED <<colorPicker, pulses, upstream>>
                       ELSE /\ sendPulse(NormX(pt.x), NormY(pt.y), inputValue)
                            /\ UNCHANGED colorPicker
          /\ pointers' = [pointers EXCEPT ![id] =
                              IF variant = "handle" /\ inside THEN "handle" ELSE "canvas"]
    /\ opened' = FALSE
    /\ UNCHANGED <<variant, view, inputValue, fingers>>
    /\ UNCHANGED netVars
    /\ UNCHANGED <<inbound, frame>>

\* pointermove: handlePointerMove on window, or handlePickerPointerMove on the
\* handle, which hears the pointers it captured and those over it
PointerMove(id, pt) ==
    /\ pt \in MovePoints
    /\ IF /\ variant = "handle" => (pointers[id] = "handle" \/ isInsideColorPicker(pt.x, pt.y))
          /\ colorPicker.isDragging
          /\ id = colorPicker.pointerId
       THEN movePickerDrag(pt.x, pt.y)
       ELSE colorPicker' = colorPicker
    /\ opened' = FALSE
    /\ UNCHANGED <<variant, view, inputValue, pointers, fingers, pulses, upstream>>
    /\ UNCHANGED netVars
    /\ UNCHANGED <<inbound, frame>>

\* pointerup: handlePointerUp on window, or handlePickerPointerUp on the handle
PointerUp(id) ==
    /\ pointers[id] # "up"
    /\ pointers' = [pointers EXCEPT ![id] = "up"]
    /\ IF variant = "canvas" \/ pointers[id] = "handle"
       THEN FinishDrag(id, TRUE)
       ELSE Ignored
    /\ UNCHANGED <<variant, view, inputValue, fingers, pulses, upstream>>
    /\ UNCHANGED netVars
    /\ UNCHANGED <<inbound, frame>>

\* pointercancel: handlePointerCancel on window, or handlePickerPointerCancel
\* on the handle
PointerCancel(id) ==
    /\ pointers[id] # "up"
    /\ pointers' = [pointers EXCEPT ![id] = "up"]
    /\ IF variant = "canvas" \/ pointers[id] = "handle"
       THEN FinishDrag(id, FALSE)
       ELSE Ignored
    /\ UNCHANGED <<variant, view, inputValue, fingers, pulses, upstream>>
    /\ UNCHANGED netVars
    /\ UNCHANGED <<inbound, frame>>

\* touchstart: handleTouchStart, or handleCanvasTouchStart / handlePickerTouchStart.
\* The handlers read event.touches[0], the oldest active touch.
TouchStart(id, pt) ==
    /\ \A i \in 1..Len(fingers) : fingers[i].id # id
    /\ Len(fingers) < Cardinality(TouchIds)
    /\ pt \in Points
    /\ Len(pulses) < MaxPulses
    /\ LET inside == isInsideColorPicker(pt.x, pt.y)
           target == IF variant = "handle" /\ inside THEN "handle" ELSE "canvas"
           touches == Append(fingers, [id |-> id, x |-> pt.x, y |-> pt.y, target |-> target])
           touch == touches[1]
           firstInside == isInsideColorPicker(touch.x, touch.y)
       IN /\ fingers' = touches
          /\ IF variant = "canvas"
             THEN IF firstInside THEN StartDrag(touch.id, touch.x, touch.y, "touch")
                  ELSE /\ sendPulse(NormX(touch.x), NormY(touch.y), inputValue)
                       /\ UNCHANGED colorPicker
             ELSE IF target = "handle" THEN StartDrag(touch.id, touch.x, touch.y, "touch")
                  ELSE IF colorPicker.isDragging
                       THEN UNCHANGED <<colorPicker, pulses, upstream>>
                       ELSE /\ sendPulse(NormX(touch.x), NormY(touch.y), inputValue)
                            /\ UNCHANGED colorPicker
    /\ opened' = FALSE
    /\ UNCHANGED <<variant, view, inputValue, pointers>>
    /\ UNCHANGED netVars
    /\ UNCHANGED <<inbound, frame>>

\* the touch of the list with the identifier id, or none
findTouchById(touchList, id) == SelectSeq(touchList, LAMBDA t : t.id = id)

\* touchmove: handleTouchMove on window, or handlePickerTouchMove on the handle
\* for a touch that started on it
TouchMove(id, pt) ==
    /\ pt \in MovePoints
    /\ \E i \in 1..Len(fingers) :
          /\ fingers[i].id = id
          /\ LET touches == [fingers EXCEPT ![i].x = pt.x, ![i].y = pt.y]
                 found == findTouchById(touches, colorPicker.pointerId)
             IN /\ fingers' = touches
                /\ IF /\ variant = "handle" => fingers[i].target = "handle"
                      /\ colorPicker.isDragging
                      /\ found # <<>>
                   THEN movePickerDrag(found[1].x, found[1].y)
                   ELSE colorPicker' = colorPicker
    /\ opened' = FALSE
    /\ UNCHANGED <<variant, view, inputValue, pointers, pulses, upstream>>
    /\ UNCHANGED netVars
    /\ UNCHANGED <<inbound, frame>>

\* touchend: handleTouchEnd on window, or handlePickerTouchEnd on the handle
TouchEnd(id) ==
    /\ \E i \in 1..Len(fingers) :
          /\ fingers[i].id = id
          /\ IF variant = "canvas" \/ fingers[i].target = "handle"
             THEN FinishDrag(id, TRUE)
             ELSE Ignored
    /\ fingers' = SelectSeq(fingers, LAMBDA f : f.id # id)
    /\ UNCHANGED <<variant, view, inputValue, pointers, pulses, upstream>>
    /\ UNCHANGED netVars
    /\ UNCHANGED <<inbound, frame>>

\* touchcancel: handleTouchCancel on window, or handlePickerTouchCancel on the handle
TouchCancel(id) ==
    /\ \E i \in 1..Len(fingers) :
          /\ fingers[i].id = id
          /\ IF variant = "canvas" THEN FinishDrag(id, FALSE)
             ELSE IF fingers[i].target = "handle" THEN endPickerDrag(FALSE)
             ELSE Ignored
    /\ fingers' = SelectSeq(fingers, LAMBDA f : f.id # id)
    /\ UNCHANGED <<variant, view, inputValue, pointers, pulses, upstream>>
    /\ UNCHANGED netVars
    /\ UNCHANGED <<inbound, frame>>


(***************************************************************************)
(* The client's connection: connectWebSocket and the listeners it adds.    *)
(***************************************************************************)
FreeSock(s) == socks[s] \in {"NONE", "CLOSED"}

\* the socket object that new WebSocket(WS_URL) creates
NewSock == CHOOSE s \in SockIds : FreeSock(s) /\ \A t \in SockIds : FreeSock(t) => s <= t

connectWebSocket ==
    /\ \E s \in SockIds : FreeSock(s)
    /\ socket' = NewSock
    /\ socks' = [socks EXCEPT ![NewSock] = "CONNECTING"]
    /\ attempts' = IF attempts < MaxAttempts THEN attempts + 1 ELSE attempts
    /\ inbound' = "none"

\* a close listener that gives up after MaxAttempts connection attempts
ScheduleReconnectLimited ==
    IF attempts < MaxAttempts THEN Append(timers, RECONNECT_DELAY) ELSE timers

\* an error listener that schedules a reconnect as the close listener does
ScheduleReconnectTwice == Append(Append(timers, RECONNECT_DELAY), RECONNECT_DELAY)

\* the close listener: setTimeout(connectWebSocket, 500)
ScheduleReconnect == Append(timers, RECONNECT_DELAY)

\* Math.max(0, Math.min(1, xNorm))
Clamp01(q) == MathMax(Zero, MathMin(One, q))

\* clampedX * canvas.width / canvas.width
ThroughPixels(q, size) == NumDiv(NumMul(q, Fin(size, 1)), Fin(size, 1))

\* the message listener: the coordinate handed to spawnPulse for a received one
MessageNorm(q, size) == ThroughPixels(Clamp01(q), size)

\* a message listener that does not look at the colour
isPulseMessageAnyColor(f) ==
    /\ StrictEq(f.type, Str("pulse"))
    /\ TypeOf(f.xNorm) = "number"
    /\ TypeOf(f.yNorm) = "number"

\* the test of the message listener
isPulseMessage(f) ==
    /\ StrictEq(f.type, Str("pulse"))
    /\ TypeOf(f.xNorm) = "number"
    /\ TypeOf(f.yNorm) = "number"
    /\ TypeOf(f.color) = "string"

\* the 'open' event of a socket
SocketOpened(s) ==
    /\ socks[s] = "CONNECTING"
    /\ serverUp
    /\ socks' = [socks EXCEPT ![s] = "OPEN"]
    /\ UNCHANGED <<variant, view, inputValue, pulses, upstream>>
    /\ UNCHANGED <<socket, timers, attempts, serverUp>>
    /\ UNCHANGED inputVars
    /\ UNCHANGED <<inbound, frame>>

\* the 'close' event of a socket whose connection attempt failed
ConnectFailed(s) ==
    /\ socks[s] = "CONNECTING"
    /\ ~serverUp
    /\ socks' = [socks EXCEPT ![s] = "CLOSED"]
    /\ timers' = ScheduleReconnect
    /\ UNCHANGED <<variant, view, inputValue, pulses, upstream>>
    /\ UNCHANGED <<socket, attempts, serverUp>>
    /\ UNCHANGED inputVars
    /\ UNCHANGED <<inbound, frame>>

\* the 'close' event of a socket that was open
ConnectionLost(s) ==
    /\ socks[s] = "OPEN"
    /\ socks' = [socks EXCEPT ![s] = "CLOSED"]
    /\ timers' = ScheduleReconnect
    /\ UNCHANGED <<variant, view, inputValue, pulses, upstream>>
    /\ UNCHANGED <<socket, attempts, serverUp>>
    /\ UNCHANGED inputVars
    /\ UNCHANGED <<inbound, frame>>

\* a reconnect timer fires: connectWebSocket
TimerFired ==
    /\ timers # <<>>
    /\ timers' = Tail(timers)
    /\ connectWebSocket
    /\ UNCHANGED <<variant, view, inputValue, pulses, upstream, serverUp>>
    /\ UNCHANGED inputVars
    /\ UNCHANGED frame

\* the 'message' event of a socket
SocketMessage(s, data) ==
    /\ socks[s] = "OPEN"
    /\ Len(pulses) < MaxPulses
    /\ pulses' =
          IF JsonParses(data) /\ isPulseMessage(Destructure(data))
          THEN LET f == Destructure(data)
               IN spawnPulse(MessageNorm(f.xNorm.num, view.canvasWidth),
                             MessageNorm(f.yNorm.num, view.canvasHeight),
                             f.color.str, "peer", f.xNorm.num, f.yNorm.num)
          ELSE pulses
    /\ inbound' = IF ~(JsonParses(data) /\ isPulseMessage(Destructure(data)))
                  THEN "discarded"
                  ELSE IF inbound = "discarded" THEN "recovered" ELSE "spawned"
    /\ UNCHANGED <<variant, view, inputValue, upstream>>
    /\ UNCHANGED netVars
    /\ UNCHANGED inputVars
    /\ UNCHANGED frame

\* the server starts or stops accepting connections
ServerChange ==
    /\ serverUp' = ~serverUp
    /\ UNCHANGED <<variant, view, inputValue, pulses, upstream>>
    /\ UNCHANGED <<socket, socks, timers, attempts>>
    /\ UNCHANGED inputVars
    /\ UNCHANGED <<inbound, frame>>


(***************************************************************************)
(* The render loop: animate.                                               *)
(***************************************************************************)
NoFrame == [gap |-> 0, step |-> 0, drawn |-> <<>>, removed |-> <<>>]

\* an animate that applies the whole gap
deltaSecUncapped(gap) == gap

\* Math.min((now - lastTime) / 1000, 0.05), in ms
deltaSec(gap) == Min2(gap, MAX_STEP)

\* an update that assigns the growth of the frame to the radius
AdvanceRadiusAssigned(pulse, delta) ==
    [pulse EXCEPT !.age = @ + delta,
                  !.radius = GROWTH_RATE * delta,
                  !.frames = IF @ < MaxFrames THEN @ + 1 ELSE @]

\* pulse.age += deltaSec; pulse.radius += GROWTH_RATE * deltaSec
Advance(pulse, delta) ==
    [pulse EXCEPT !.age = @ + delta,
                  !.radius = @ + GROWTH_RATE * delta,
                  !.frames = IF @ < MaxFrames THEN @ + 1 ELSE @]

\* a test that lets a pulse live through the frame in which its age reaches
\* the lifetime
ExpiredLate(pulse) == pulse.age > PULSE_LIFETIME

\* lifeT >= 1 for lifeT = Math.min(1, pulse.age / PULSE_LIFETIME)
Expired(pulse) == pulse.age >= PULSE_LIFETIME

\* pulses.splice(i, 1)
Splice(arr, i) == SubSeq(arr, 1, i - 1) \o SubSeq(arr, i + 1, Len(arr))

\* a loop that counts upwards and goes on to index j + 1 after a splice at j
RECURSIVE AnimateUpwards(_, _, _)
AnimateUpwards(j, delta, run) ==
    IF j > Len(run.arr) THEN run
    ELSE LET pulse == Advance(run.arr[j], delta)
         IN IF Expired(pulse)
            THEN AnimateUpwards(j + 1, delta,
                                [run EXCEPT !.arr = Splice(@, j),
                                            !.removed = Append(@, pulse)])
            ELSE AnimateUpwards(j + 1, delta,
                                [run EXCEPT !.arr[j] = pulse,
                                            !.drawn = Append(@, pulse)])

AnimateLoopUpwards(i, delta, run) == AnimateUpwards(1, delta, run)

\* a loop that starts at pulses.length - 2
RECURSIVE AnimateDown(_, _, _)
AnimateDown(i, delta, run) ==
    IF i <= 0 THEN run
    ELSE LET pulse == Advance(run.arr[i], delta)
         IN IF Expired(pulse)
            THEN AnimateDown(i - 1, delta,
                             [run EXCEPT !.arr = Splice(@, i),
                                         !.removed = Append(@, pulse)])
            ELSE AnimateDown(i - 1, delta,
                             [run EXCEPT !.arr[i] = pulse,
                                         !.drawn = Append(@, pulse)])

AnimateLoopSkippingLast(i, delta, run) == AnimateDown(i - 1, delta, run)

\* the loop of animate from index i down to the first pulse: run is the
\* array, what was drawn and what was removed so far
RECURSIVE AnimateLoop(_, _, _)
AnimateLoop(i, delta, run) ==
    IF i = 0 THEN run
    ELSE LET pulse == Advance(run.arr[i], delta)
         IN IF Expired(pulse)
            THEN AnimateLoop(i - 1, delta,
                             [run EXCEPT !.arr = Splice(@, i),
                                         !.removed = Append(@, pulse)])
            ELSE AnimateLoop(i - 1, delta,
                             [run EXCEPT !.arr[i] = pulse,
                                         !.drawn = Append(@, pulse)])

\* one call of animate, now - lastTime being gap
Frame(gap) ==
    /\ LET delta == deltaSec(gap)
           run == AnimateLoop(Len(pulses), delta,
                              [arr |-> pulses, drawn |-> <<>>, removed |-> <<>>])
       IN /\ pulses' = run.arr
          /\ frame' = [gap |-> gap, step |-> delta,
                       drawn |-> run.drawn, removed |-> run.removed]
    /\ UNCHANGED <<variant, view, inputValue, upstream, inbound>>
    /\ UNCHANGED inputVars
    /\ UNCHANGED netVars

\* the state after init(): the canvas is sized, the picker placed, the first
\* socket is connecting
(***************************************************************************)
(* What lies between the programs: the connection of the client to the     *)
(* relay, and the finger whose contact the browser reports to the page.    *)
(***************************************************************************)
VARIABLES
    wire,         \* how many frames of the client's connection have arrived, each way
    contact       \* the touch contact the browser is dispatching, and the counts before it

envVars == <<wire, contact>>

NoWire == [up |-> 0, down |-> 0]

NoContact == [phase |-> "none", x |-> 0, y |-> 0, pulses |-> 0, sent |-> 0]

ClientStart(v) ==
    /\ variant \in Variants
    /\ view = v
    /\ colorPicker = InitialPicker(v)
    /\ inputValue = "#1e90ff"
    /\ pointers = [i \in PointerIds |-> "up"]
    /\ fingers = <<>>
    /\ pulses = <<>>
    /\ socket = 1
    /\ socks = [s \in SockIds |-> IF s = 1 THEN "CONNECTING" ELSE "NONE"]
    /\ timers = <<>>
    /\ attempts = 1
    /\ upstream = <<>>
    /\ serverUp \in BOOLEAN
    /\ inbound = "none"
    /\ frame = NoFrame
    /\ opened = FALSE
    /\ wire = NoWire
    /\ contact = NoContact

ClientInit == \E vp \in Viewports : ClientStart(SizedView(vp))

\* the default surface of ClientSpec and ReconnectSpec
PlainView == SizedView([w |-> 3000, h |-> 2000, r |-> 4])

\* the one client state the relay's specification keeps
ClientAtRest ==
    /\ ClientInit
    /\ variant = "canvas"
    /\ view = PlainView
    /\ serverUp

(***************************************************************************)
(* The specifications.                                                     *)
(*   Spec           the relay alone.                                       *)
(*   SurfaceSpec    the client's pulses on a surface that is resized: one  *)
(*                  pointer, one finger, a socket that opens and delivers. *)
(*   ClientSpec     the client's input and connection on a fixed surface:  *)
(*                  one pointer, two fingers, the socket's whole life.     *)
(*   DragSpec       the client's input with moves on a small surface:      *)
(*                  presses, moves, releases and cancels of one pointer    *)
(*                  and of two fingers that come down on the picker.       *)
(*   AnimateSpec    the render loop: frames of several gaps and the taps   *)
(*                  of a pointer and a finger that stay down.              *)
(*   ReconnectSpec  the client's connection, with the fairness of the      *)
(*                  browser's event loop: a pending timer fires and a      *)
(*                  connection attempt is answered.                        *)
(***************************************************************************)
vars == <<relayVars, clientVars, envVars>>

Init == RelayInit /\ ClientAtRest

Next ==
    \/ \E c \in Conns : OnConnection(c) /\ UNCHANGED <<clientVars, envVars>>
    \/ \E c \in Conns, data \in Frames : OnMessage(c, data) /\ UNCHANGED <<clientVars, envVars>>
    \/ \E c \in Conns : LinkDown(c) /\ UNCHANGED <<clientVars, envVars>>
    \/ \E c \in Conns : OnCloseFrame(c) /\ UNCHANGED <<clientVars, envVars>>
    \/ \E c \in Conns : OnClose(c) /\ UNCHANGED <<clientVars, envVars>>

Spec == Init /\ [][Next]_vars

SurfaceInit == ClientInit /\ serverUp /\ RelayInit

SurfaceNext ==
    \/ \E vp \in Viewports : Resize(vp) /\ UNCHANGED <<relayVars, envVars>>
    \/ \E pt \in Points : PointerDown(1, pt) /\ UNCHANGED <<relayVars, envVars>>
    \/ PointerUp(1) /\ UNCHANGED <<relayVars, envVars>>
    \/ \E pt \in Points : TouchStart(0, pt) /\ UNCHANGED <<relayVars, envVars>>
    \/ TouchEnd(0) /\ UNCHANGED <<relayVars, envVars>>
    \/ \E s \in SockIds : SocketOpened(s) /\ UNCHANGED <<relayVars, envVars>>
    \/ \E s \in SockIds, data \in PeerFrames : SocketMessage(s, data) /\ UNCHANGED <<relayVars, envVars>>

SurfaceSpec == SurfaceInit /\ [][SurfaceNext]_vars

ClientFixedInit == ClientInit /\ view = PlainView /\ RelayInit

ClientNext ==
    \/ \E id \in PointerIds, pt \in Points : PointerDown(id, pt) /\ UNCHANGED <<relayVars, envVars>>
    \/ \E id \in PointerIds : PointerUp(id) /\ UNCHANGED <<relayVars, envVars>>
    \/ \E id \in PointerIds : PointerCancel(id) /\ UNCHANGED <<relayVars, envVars>>
    \/ \E id \in TouchIds, pt \in Points : TouchStart(id, pt) /\ UNCHANGED <<relayVars, envVars>>
    \/ \E id \in TouchIds : TouchEnd(id) /\ UNCHANGED <<relayVars, envVars>>
    \/ \E id \in TouchIds : TouchCancel(id) /\ UNCHANGED <<relayVars, envVars>>
    \/ \E s \in SockIds : SocketOpened(s) /\ UNCHANGED <<relayVars, envVars>>
    \/ \E s \in SockIds : ConnectFailed(s) /\ UNCHANGED <<relayVars, envVars>>
    \/ \E s \in SockIds : ConnectionLost(s) /\ UNCHANGED <<relayVars, envVars>>
    \/ TimerFired /\ UNCHANGED <<relayVars, envVars>>
    \/ ServerChange /\ UNCHANGED <<relayVars, envVars>>

ClientSpec == ClientFixedInit /\ [][ClientNext]_vars

ReconnectNext ==
    \/ \E s \in SockIds : SocketOpened(s) /\ UNCHANGED <<relayVars, envVars>>
    \/ \E s \in SockIds : ConnectFailed(s) /\ UNCHANGED <<relayVars, envVars>>
    \/ \E s \in SockIds : ConnectionLost(s) /\ UNCHANGED <<relayVars, envVars>>
    \/ TimerFired /\ UNCHANGED <<relayVars, envVars>>
    \/ ServerChange /\ UNCHANGED <<relayVars, envVars>>
    \/ \E s \in SockIds, data \in PeerFrames : SocketMessage(s, data) /\ UNCHANGED <<relayVars, envVars>>
    \/ \E pt \in Points : PointerDown(1, pt) /\ UNCHANGED <<relayVars, envVars>>
    \/ PointerUp(1) /\ UNCHANGED <<relayVars, envVars>>

ReconnectSpec ==
    /\ ClientFixedInit
    /\ [][ReconnectNext]_vars
    /\ WF_vars(TimerFired /\ UNCHANGED <<relayVars, envVars>>)
    /\ WF_vars(\E s \in SockIds : SocketOpened(s) /\ UNCHANGED <<relayVars, envVars>>)
    /\ WF_vars(\E s \in SockIds : ConnectFailed(s) /\ UNCHANGED <<relayVars, envVars>>)

\* the surface of DragSpec: 50 x 50 pixels, on which the picker's centre has
\* 10 pixels of room
SmallView == SizedView([w |-> 500, h |-> 500, r |-> 4])

DragInit ==
    /\ ClientStart(SmallView)
    /\ serverUp
    /\ RelayInit

DragNext ==
    \/ \E pt \in Points : PointerDown(1, pt) /\ UNCHANGED <<relayVars, envVars>>
    \/ \E pt \in MovePoints : PointerMove(1, pt) /\ UNCHANGED <<relayVars, envVars>>
    \/ PointerUp(1) /\ UNCHANGED <<relayVars, envVars>>
    \/ PointerCancel(1) /\ UNCHANGED <<relayVars, envVars>>
    \/ \E id \in TouchIds, pt \in Points :
          isInsideColorPicker(pt.x, pt.y) /\ TouchStart(id, pt) /\ UNCHANGED <<relayVars, envVars>>
    \/ \E id \in TouchIds, pt \in MovePoints : TouchMove(id, pt) /\ UNCHANGED <<relayVars, envVars>>
    \/ \E id \in TouchIds : TouchEnd(id) /\ UNCHANGED <<relayVars, envVars>>
    \/ \E id \in TouchIds : TouchCancel(id) /\ UNCHANGED <<relayVars, envVars>>

DragSpec == DragInit /\ [][DragNext]_vars

AnimateInit == ClientFixedInit /\ variant = "canvas" /\ serverUp

AnimateNext ==
    \/ \E gap \in FrameGaps : Frame(gap) /\ UNCHANGED <<relayVars, envVars>>
    \/ \E pt \in Points :
          ~isInsideColorPicker(pt.x, pt.y) /\ PointerDown(1, pt) /\ UNCHANGED <<relayVars, envVars>>
    \/ \E pt \in Points :
          ~isInsideColorPicker(pt.x, pt.y) /\ TouchStart(0, pt) /\ UNCHANGED <<relayVars, envVars>>

AnimateSpec == AnimateInit /\ [][AnimateNext]_vars

\* the gaps of the frames of AnimateFairSpec: at the cap and far above it
SlowGaps == {50, 1000}

AnimateFairNext ==
    \/ \E gap \in SlowGaps : Frame(gap) /\ UNCHANGED <<relayVars, envVars>>
    \/ \E pt \in Points :
          ~isInsideColorPicker(pt.x, pt.y) /\ PointerDown(1, pt) /\ UNCHANGED <<relayVars, envVars>>
    \/ \E pt \in Points :
          ~isInsideColorPicker(pt.x, pt.y) /\ TouchStart(0, pt) /\ UNCHANGED <<relayVars, envVars>>

\* animate ends in requestAnimationFrame(animate): frames keep coming
AnimateFairSpec ==
    /\ AnimateInit
    /\ [][AnimateFairNext]_vars
    /\ WF_vars(\E gap \in SlowGaps : Frame(gap) /\ UNCHANGED <<relayVars, envVars>>)

\* the connection slot of the relay that the client's socket is, and a peer's
Own == 1
Peer == 2

\* the handshake of the client's socket is done: 'connection' at the relay,
\* 'open' at the client
Join ==
    /\ socket # NoId
    /\ SocketOpened(socket)
    /\ OnConnection(Own)
    /\ wire' = [up |-> Len(upstream), down |-> 0]
    /\ UNCHANGED contact

\* the next frame the client sent arrives at the relay
Uplink ==
    /\ wire.up < Len(upstream)
    /\ OnMessage(Own, upstream[wire.up + 1])
    /\ wire' = [wire EXCEPT !.up = @ + 1]
    /\ UNCHANGED <<clientVars, contact>>

\* the next frame the relay sent on the client's connection arrives
Downlink ==
    /\ socket # NoId
    /\ wire.down < Len(recv[Own])
    /\ SocketMessage(socket, recv[Own][wire.down + 1].frame)
    /\ wire' = [wire EXCEPT !.down = @ + 1]
    /\ UNCHANGED <<relayVars, contact>>

\* the transport of the client's connection fails: the client hears 'close'
\* and the relay has not noticed yet
Drop ==
    /\ socket # NoId
    /\ ConnectionLost(socket)
    /\ LinkDown(Own)
    /\ UNCHANGED envVars

EchoInit == ClientFixedInit /\ serverUp

EchoNext ==
    \/ Join
    \/ \E pt \in Points : PointerDown(1, pt) /\ UNCHANGED <<relayVars, envVars>>
    \/ PointerUp(1) /\ UNCHANGED <<relayVars, envVars>>
    \/ Uplink
    \/ Downlink
    \/ Drop
    \/ OnClose(Own) /\ UNCHANGED <<clientVars, envVars>>
    \/ OnConnection(Peer) /\ UNCHANGED <<clientVars, envVars>>
    \/ \E data \in Frames : OnMessage(Peer, data) /\ UNCHANGED <<clientVars, envVars>>

EchoSpec == EchoInit /\ [][EchoNext]_vars

\* the viewports of PlaceSpec: those of the client and the small surface
PlaceViewports == Viewports \cup {[w |-> 500, h |-> 500, r |-> 4]}

PlaceInit == \E vp \in PlaceViewports : ClientStart(SizedView(vp)) /\ serverUp /\ RelayInit

PlaceNext ==
    \/ \E vp \in PlaceViewports : Resize(vp) /\ UNCHANGED <<relayVars, envVars>>
    \/ \E pt \in Points :
          isInsideColorPicker(pt.x, pt.y) /\ PointerDown(1, pt) /\ UNCHANGED <<relayVars, envVars>>
    \/ \E pt \in MovePoints : PointerMove(1, pt) /\ UNCHANGED <<relayVars, envVars>>
    \/ PointerUp(1) /\ UNCHANGED <<relayVars, envVars>>

PlaceSpec == PlaceInit /\ [][PlaceNext]_vars

\* the pointer and the touch identifier the browser gives a finger
FingerPointer == 1
FingerTouch == 0

\* a finger lands on the screen: the browser dispatches pointerdown to the
\* element under it
ContactPointerDown(pt) ==
    /\ contact.phase = "none"
    /\ PointerDown(FingerPointer, pt)
    /\ contact' = [phase |-> "pointerdown", x |-> pt.x, y |-> pt.y,
                   pulses |-> Len(pulses), sent |-> Len(upstream)]
    /\ UNCHANGED <<relayVars, wire>>

\* and then touchstart, for the same finger at the same place
ContactTouchStart ==
    /\ contact.phase = "pointerdown"
    /\ TouchStart(FingerTouch, [x |-> contact.x, y |-> contact.y])
    /\ contact' = [contact EXCEPT !.phase = "down"]
    /\ UNCHANGED <<relayVars, wire>>

\* the finger is lifted: pointerup
ContactPointerUp ==
    /\ contact.phase = "down"
    /\ PointerUp(FingerPointer)
    /\ contact' = [contact EXCEPT !.phase = "pointerup"]
    /\ UNCHANGED <<relayVars, wire>>

\* and then touchend
ContactTouchEnd ==
    /\ contact.phase = "pointerup"
    /\ TouchEnd(FingerTouch)
    /\ contact' = NoContact
    /\ UNCHANGED <<relayVars, wire>>

TapInit == ClientFixedInit

TapNext ==
    \/ \E pt \in Points : ContactPointerDown(pt)
    \/ ContactTouchStart
    \/ ContactPointerUp
    \/ ContactTouchEnd
    \/ \E s \in SockIds : SocketOpened(s) /\ UNCHANGED <<relayVars, envVars>>
    \/ \E s \in SockIds : ConnectFailed(s) /\ UNCHANGED <<relayVars, envVars>>
    \/ \E s \in SockIds : ConnectionLost(s) /\ UNCHANGED <<relayVars, envVars>>
    \/ TimerFired /\ UNCHANGED <<relayVars, envVars>>
    \/ ServerChange /\ UNCHANGED <<relayVars, envVars>>

TapSpec == TapInit /\ [][TapNext]_vars

\* the environments the server is started in
PortTexts == {<<>>, <<3, 0, 0, 0>>, <<3, 0, 0, 1>>, <<5, 0, 0, 0>>, <<8, 0, 8, 0>>}
PortEnvs == {NoPortEnv} \cup {[set |-> TRUE, text |-> t] : t \in PortTexts}
OtherPorts == {3000, 3001, 5000, 8080}

ListenInit ==
    /\ NoConnections
    /\ portEnv \in PortEnvs
    /\ bound \in SUBSET OtherPorts
    /\ listening = Starting
    /\ ClientAtRest

ListenNext == Listen /\ UNCHANGED <<clientVars, envVars>>

ListenSpec == ListenInit /\ [][ListenNext]_vars

(***************************************************************************)
(* Claims about the relay, checked under Spec.                             *)
(***************************************************************************)
OpenConns == { c \in Conns : readyState[c] = "OPEN" }

LiveConns == { c \in OpenConns : linkUp[c] }

Broadcasted == last.kind = "message" /\ last.valid

\* a frame as the claims describe a valid one: well-formed JSON, an object, the
\* tag "pulse", both coordinates numbers, the colour a string
PassesSchema(data) ==
    /\ data.wf
    /\ data.top = "object"
    /\ data.fields.type.t = "string" /\ data.fields.type.str = "pulse"
    /\ data.fields.xNorm.t = "number"
    /\ data.fields.yNorm.t = "number"
    /\ data.fields.color.t = "string"

\* C1: when the relay has handled a frame that passes the schema check, it has
\* called send exactly once on every connection that is OPEN at that moment,
\* the sender included, and on no other connection.
C1_FanOutToEveryOpen ==
    Broadcasted =>
        /\ Range(last.sent) = OpenConns
        /\ Len(last.sent) = Cardinality(OpenConns)
        /\ last.conn \in Range(last.sent)

C1_Witness ==
    /\ Broadcasted
    /\ Cardinality(OpenConns) >= 2
    /\ last.conn \in OpenConns

\* C2: handling a frame that is not JSON or fails the schema check sends
\* nothing, changes no connection and closes none; and a frame that passes,
\* handled after such a frame was dropped, still reaches every live open
\* connection.
C2_InvalidDropped ==
    [][\A c \in Conns, data \in Frames :
          OnMessage(c, data) =>
              /\ ~PassesSchema(data) =>
                    /\ UNCHANGED <<recv, clients, readyState, linkUp, processed>>
                    /\ last'.sent = <<>>
              /\ (PassesSchema(data) /\ handled > processed) =>
                    /\ Range(last'.sent) = OpenConns
                    /\ \A d \in LiveConns : Len(recv'[d]) = Len(recv[d]) + 1
                    /\ UNCHANGED <<clients, readyState, linkUp>>
      ]_vars

C2_Witness ==
    /\ Broadcasted
    /\ handled > processed
    /\ Cardinality(LiveConns) >= 2
    /\ \A c \in LiveConns : Len(recv[c]) >= 1

SameValue(a, b) ==
    /\ a.t = b.t
    /\ a.str = b.str
    /\ a.t = "number" => (a.num.k = b.num.k /\ a.num.n * b.num.d = b.num.n * a.num.d)

\* C3: every frame a connection receives carries exactly the four fields type,
\* xNorm, yNorm and color, with the values of the inbound frame it relays, and
\* none of the inbound frame's other fields.
C3_FieldsForwardedUnchanged ==
    \A c \in Conns : \A i \in 1..Len(recv[c]) :
        LET out == recv[c][i].frame
            in == recv[c][i].orig
        IN /\ out.wf /\ out.top = "object"
           /\ SameValue(out.fields.type, in.fields.type)
           /\ SameValue(out.fields.xNorm, in.fields.xNorm)
           /\ SameValue(out.fields.yNorm, in.fields.yNorm)
           /\ SameValue(out.fields.color, in.fields.color)
           /\ out.fields.extra = Undefined

\* C4: when the send to a connection that is still listed as OPEN fails during
\* a fan-out, every other open connection whose transport works has received
\* the frame of that fan-out.
C4_FailedSendDoesNotAbort ==
    (Broadcasted /\ \E d \in OpenConns : ~linkUp[d]) =>
        \A c \in LiveConns :
            /\ Len(recv[c]) > 0
            /\ recv[c][Len(recv[c])].seq = processed

C4_Witness ==
    /\ Broadcasted
    /\ \E i, j \in 1..Len(clients) :
          /\ i < j
          /\ readyState[clients[i]] = "OPEN" /\ ~linkUp[clients[i]]
          /\ readyState[clients[j]] = "OPEN" /\ linkUp[clients[j]]
          /\ Len(recv[clients[j]]) > 0
          /\ recv[clients[j]][Len(recv[clients[j]])].seq = processed

\* C5: every connection receives the broadcast frames in the order in which
\* the relay processed them, and two connections that receive the same
\* broadcast receive the same frame.
C5_BroadcastOrder ==
    /\ \A c \in Conns : \A i, j \in 1..Len(recv[c]) :
          i < j => recv[c][i].seq < recv[c][j].seq
    /\ \A c, d \in Conns : \A i \in 1..Len(recv[c]) : \A j \in 1..Len(recv[d]) :
          recv[c][i].seq = recv[d][j].seq => recv[c][i] = recv[d][j]

C5_Witness ==
    \E c, d \in Conns :
        /\ c # d
        /\ Len(recv[c]) >= 2 /\ Len(recv[d]) >= 2
        /\ recv[c][1].frame # recv[c][2].frame

\* C6: a connection has received exactly the broadcasts processed while it was
\* open, each once: those after the one current when it was opened, up to the
\* one current when it stopped being open; a connection slot that is closed
\* holds nothing, so a reconnection starts empty.
C6_ReceivesExactlyWhileOpen ==
    \A c \in Conns :
        IF readyState[c] = "CLOSED" THEN recv[c] = <<>>
        ELSE LET until == IF closedAt[c] = -1 THEN processed ELSE closedAt[c]
             IN /\ Len(recv[c]) = until - openedAt[c]
                /\ \A i \in 1..Len(recv[c]) : recv[c][i].seq = openedAt[c] + i

C6_Witness ==
    \E c, d \in Conns :
        /\ readyState[c] = "OPEN" /\ openedAt[c] >= 1 /\ Len(recv[c]) >= 1
        /\ readyState[d] = "CLOSING" /\ closedAt[d] < processed /\ Len(recv[d]) >= 1

(***************************************************************************)
(* Claims about the client                                                 *)
(***************************************************************************)
\* 0 <= q <= 1 for a number q; false for NaN and the infinities
InUnit(q) == q.k = "fin" /\ ~NumLess(q, Zero) /\ ~NumLess(One, q)

\* a and b are the same number
SameNumber(a, b) == a.k = b.k /\ (a.k = "fin" => a.n * b.d = b.n * a.d)

\* C7: every pulse in the active collection, created by a local tap or by a
\* message from a peer, has normX and normY within [0,1].
C7_PulsesInUnitSquare ==
    \A i \in 1..Len(pulses) : InUnit(pulses[i].normX) /\ InUnit(pulses[i].normY)

\* C8: the pulse spawned for a received pulse message has each coordinate of
\* the message clamped to the nearest bound of [0,1]: below 0 becomes 0, above
\* 1 becomes 1, and a coordinate in the range is kept unchanged.
C8_PeerCoordinatesClamped ==
    \A i \in 1..Len(pulses) :
        pulses[i].origin = "peer" =>
            /\ SameNumber(pulses[i].normX, Clamp01(pulses[i].rx))
            /\ SameNumber(pulses[i].normY, Clamp01(pulses[i].ry))

\* what the claim says a tap does: one more pulse, and one more frame upstream
\* exactly when the socket is open
TapEffect ==
    /\ Len(pulses') = Len(pulses) + 1
    /\ Len(upstream') = Len(upstream) + (IF SocketOpen THEN 1 ELSE 0)

\* a pointer-down or a touch-start at a point outside the colour picker
TapOutside ==
    \/ \E id \in PointerIds, pt \in Points :
          PointerDown(id, pt) /\ ~isInsideColorPicker(pt.x, pt.y)
    \/ \E id \in TouchIds, pt \in Points :
          TouchStart(id, pt) /\ ~isInsideColorPicker(pt.x, pt.y)

\* C9: a tap outside the colour picker always adds one pulse at once, whatever
\* the connection state, and sends its message if and only if the socket is
\* open at that moment; nothing is sent at any other time, so a pulse created
\* while the socket was connecting or closed is never sent later.
C9_TapSpawnsAndSendsIffOpen ==
    [][ /\ TapOutside => TapEffect
        /\ upstream' # upstream => TapOutside ]_vars

\* a step in which a socket of the client closes
SocketCloses == \E s \in SockIds : socks[s] # "CLOSED" /\ socks'[s] = "CLOSED"

\* C10: every close of the client's connection, a failed attempt included,
\* schedules exactly one connection attempt with the delay of 500 ms, whatever
\* the number of earlier attempts; and if the server stays reachable from some
\* time on, the client is connected again and again after every loss.
C10_ReconnectAfterEveryClose ==
    /\ [][SocketCloses => timers' = Append(timers, 500)]_vars
    /\ (<>[]serverUp) => []<>SocketOpen

\* the client is connected again: a socket closed, its timer fired, and the
\* socket made by that second or later attempt is open
C10_Witness ==
    /\ attempts >= 2
    /\ SocketOpen
    /\ timers = <<>>

\* a payload that is valid JSON for an object with type "pulse", numbers xNorm
\* and yNorm and a string color
ValidPulsePayload(data) ==
    /\ data.wf
    /\ data.top = "object"
    /\ data.fields.type = Str("pulse")
    /\ data.fields.xNorm.t = "number"
    /\ data.fields.yNorm.t = "number"
    /\ data.fields.color.t = "string"

\* C11: a received payload that is not valid JSON or fails the pulse schema
\* leaves the pulse collection, the sockets and the reconnect timers as they
\* were, and a valid pulse message always adds one pulse, also right after a
\* discarded payload on the same socket.
C11_BadPayloadDiscarded ==
    [][\A s \in SockIds, data \in PeerFrames :
          SocketMessage(s, data) =>
              IF ValidPulsePayload(data)
              THEN Len(pulses') = Len(pulses) + 1
              ELSE /\ pulses' = pulses
                   /\ <<socket, socks, timers, attempts>>' = <<socket, socks, timers, attempts>>
      ]_vars

\* a pulse from a peer was spawned right after a payload was discarded, on a
\* socket that is still open and with no reconnect pending
C11_Witness ==
    /\ inbound = "recovered"
    /\ SocketOpen
    /\ timers = <<>>
    /\ Len(pulses) >= 1
    /\ pulses[Len(pulses)].origin = "peer"

\* C12: a pulse leaves the collection in the first frame in which its age is
\* at least PULSE_LIFETIME: a pulse a frame removed had reached the lifetime
\* in that frame and not before, no pulse in the collection has reached it,
\* and what a frame drew had not reached it, so a removed pulse is not drawn.
C12_RemovedWhenLifetimeReached ==
    /\ \A i \in 1..Len(pulses) : pulses[i].age < PULSE_LIFETIME
    /\ \A i \in 1..Len(frame.removed) :
          /\ frame.removed[i].age >= PULSE_LIFETIME
          /\ frame.removed[i].age - frame.step < PULSE_LIFETIME
    /\ \A i \in 1..Len(frame.drawn) :
          /\ frame.drawn[i].age < PULSE_LIFETIME
          /\ \A j \in 1..Len(frame.removed) : frame.drawn[i] # frame.removed[j]

\* a frame removed a pulse whose age was exactly the lifetime and drew a
\* younger one
C12_Witness ==
    /\ \E i \in 1..Len(frame.removed) : frame.removed[i].age = PULSE_LIFETIME
    /\ frame.drawn # <<>>
    /\ Len(pulses) = Len(frame.drawn)

\* the pulses the last frame advanced, and those in the collection
Advanced == Range(frame.drawn) \cup Range(frame.removed)

\* C13: the step of every frame is at most 0.05 s whatever the gap, so the age
\* of a pulse is at most 0.05 s times the frames it went through, and a pulse
\* is in at least its 28th frame when it is removed.
C13_StepCapped ==
    /\ frame.step <= 50
    /\ \A pulse \in Advanced \cup Range(pulses) :
          pulse.frames < MaxFrames => pulse.age <= 50 * pulse.frames
    /\ \A pulse \in Range(frame.removed) : pulse.frames >= 28

\* after a gap of a second a frame advanced by the cap and removed a pulse in
\* its 28th frame
C13_Witness ==
    /\ frame.gap > 50
    /\ frame.step = 50
    /\ \E pulse \in Range(frame.removed) : pulse.frames = 28

\* a move, release or cancel event of the pointer id
PointerEventOf(id) ==
    \/ \E pt \in MovePoints : PointerMove(id, pt)
    \/ PointerUp(id)
    \/ PointerCancel(id)

\* a move, end or cancel event of the touch id
TouchEventOf(id) ==
    \/ \E pt \in MovePoints : TouchMove(id, pt)
    \/ TouchEnd(id)
    \/ TouchCancel(id)

\* the event leaves the picker's position, dragging flag and tracked
\* identifier as they were and does not open the picker
PickerUntouched ==
    /\ colorPicker'.x = colorPicker.x
    /\ colorPicker'.y = colorPicker.y
    /\ colorPicker'.isDragging = colorPicker.isDragging
    /\ colorPicker'.pointerId = colorPicker.pointerId
    /\ ~opened'

\* C14: while a drag is active and tracked by an identifier, a move, release
\* or cancel event that carries any other pointer or touch identifier leaves
\* the picker's position, the dragging flag and the tracked identifier
\* unchanged and does not open the picker.
C14_OtherIdentifierIgnored ==
    [][ /\ \A id \in PointerIds :
              (colorPicker.isDragging /\ id # colorPicker.pointerId /\ PointerEventOf(id))
                  => PickerUntouched
        /\ \A id \in TouchIds :
              (colorPicker.isDragging /\ id # colorPicker.pointerId /\ TouchEventOf(id))
                  => PickerUntouched ]_vars

\* a pointer-down or a touch-start at a point inside the colour picker
PressInside ==
    \/ \E id \in PointerIds, pt \in Points :
          PointerDown(id, pt) /\ isInsideColorPicker(pt.x, pt.y)
    \/ \E id \in TouchIds, pt \in Points :
          TouchStart(id, pt) /\ isInsideColorPicker(pt.x, pt.y)

\* C15: a pointer-down or touch-start that lands inside the colour picker
\* starts a drag and adds no pulse and sends nothing; a pulse is only ever
\* added by a press outside the picker.
C15_PressInsideOnlyDrags ==
    [][ /\ PressInside =>
              /\ colorPicker'.isDragging
              /\ pulses' = pulses
              /\ upstream' = upstream
        /\ Len(pulses') > Len(pulses) => TapOutside ]_vars

\* the pointer or the finger that owns the drag is released
OwnerReleased ==
    /\ colorPicker.isDragging
    /\ \/ colorPicker.family = "pointer" /\ PointerUp(colorPicker.pointerId)
       \/ colorPicker.family = "touch" /\ TouchEnd(colorPicker.pointerId)

\* the pointer or the finger that owns the drag is cancelled
OwnerCancelled ==
    /\ colorPicker.isDragging
    /\ \/ colorPicker.family = "pointer" /\ PointerCancel(colorPicker.pointerId)
       \/ colorPicker.family = "touch" /\ TouchCancel(colorPicker.pointerId)

\* the picker is less than 3 pixels from where it was when the drag started
MovedUnder3Pixels ==
    LET dx == colorPicker.x - colorPicker.dragStartX
        dy == colorPicker.y - colorPicker.dragStartY
    IN dx * dx + dy * dy < 30 * 30

\* C16: the release of the drag's owner opens the native picker exactly when
\* the drag moved less than 3 pixels, its cancel never opens it, and both end
\* the drag: the dragging flag is cleared and the tracked identifier reset.
C16_ReleaseOpensUnderThreshold ==
    [][ /\ OwnerReleased =>
              /\ opened' = MovedUnder3Pixels
              /\ ~colorPicker'.isDragging /\ colorPicker'.pointerId = NoId
        /\ OwnerCancelled =>
              /\ ~opened'
              /\ ~colorPicker'.isDragging /\ colorPicker'.pointerId = NoId ]_vars

\* C17: a pulse spawned by a touch-start is placed at the normalized
\* coordinates of the touch that just started and has the selected colour,
\* also when another finger is already down.
C17_PulseAtStartedTouch ==
    [][ \A id \in TouchIds, pt \in Points :
            (TouchStart(id, pt) /\ Len(pulses') = Len(pulses) + 1) =>
                LET pulse == pulses'[Len(pulses')]
                IN /\ SameNumber(pulse.normX, NormX(pt.x))
                   /\ SameNumber(pulse.normY, NormY(pt.y))
                   /\ pulse.colorHex = inputValue ]_vars

\* C18: the server listens on the port PORT gives when PORT is set; when PORT
\* is unset it listens on 8080, and on 3001 instead when 8080 is already bound.
C18_DocumentedPort ==
    listening # Starting =>
        /\ (portEnv.set /\ portEnv.text # <<>> /\ DecimalValue(portEnv.text) \notin bound) =>
               listening = [state |-> "listening", port |-> DecimalValue(portEnv.text)]
        /\ (~portEnv.set /\ 8080 \notin bound) =>
               listening = [state |-> "listening", port |-> 8080]
        /\ (~portEnv.set /\ 8080 \in bound /\ 3001 \notin bound) =>
               listening = [state |-> "listening", port |-> 3001]

\* C19: a tap of a client whose connection is open, and stays open, leaves it
\* with two pulses, the local one at once and a second one when the relay's
\* echo of its own message arrives; a tap of a client whose connection is not
\* open leaves it with the local pulse only.
Locals == { i \in 1..Len(pulses) : pulses[i].origin = "local" }

Echoes == { i \in 1..Len(pulses) : pulses[i].origin = "peer" /\ pulses[i].colorHex = inputValue }

Drained == wire.up = Len(upstream) /\ wire.down = Len(recv[Own])

TapAt(pt) == PointerDown(1, pt) /\ ~isInsideColorPicker(pt.x, pt.y)

C20_OneTapOnePulse ==
    (contact.phase = "down" /\ ~isInsideColorPicker(contact.x, contact.y)) =>
        /\ Len(pulses) = contact.pulses + 1
        /\ Len(upstream) <= contact.sent + 1

\* C21: once a drag has been started by an identifier, the tracked identifier
\* and the recorded drag-start position stay its own until it is released or
\* cancelled; a press of another pointer or finger on the picker does not
\* take over or restart the drag.
C21_DragKeepsItsOwner ==
    [][ (colorPicker.isDragging /\ ~OwnerReleased /\ ~OwnerCancelled) =>
            /\ colorPicker'.isDragging
            /\ colorPicker'.pointerId = colorPicker.pointerId
            /\ colorPicker'.family = colorPicker.family
            /\ colorPicker'.dragStartX = colorPicker.dragStartX
            /\ colorPicker'.dragStartY = colorPicker.dragStartY ]_vars

\* C22: the radius of every pulse is GROWTH_RATE times its age, in the
\* collection and in what a frame drew or removed, and from one state to the
\* next neither the age nor the radius of a pulse that stays in the
\* collection decreases.
Kept == Min2(Len(pulses), Len(pulses'))

Earlier(k) == pulses[k + Len(pulses) - Kept]

C22_RadiusFollowsAge ==
    /\ [](\A pulse \in Range(pulses) \cup Advanced :
              pulse.radius = GROWTH_RATE * pulse.age)
    /\ [][ \A k \in 1..Kept :
              /\ pulses'[k].age >= Earlier(k).age
              /\ pulses'[k].radius >= Earlier(k).radius ]_vars

\* a pulse went through a frame of 25 ms and a frame of 50 ms
C22_Witness ==
    \E i \in 1..Len(pulses) :
        /\ pulses[i].frames = 2
        /\ pulses[i].age = 75
        /\ pulses[i].radius = 31500

\* C23: after init and after any drag moves and resizes the centre of the
\* picker satisfies radius <= x <= max(radius, width - radius) and
\* radius <= y <= max(radius, height - radius), so the handle is inside a
\* surface that is at least one handle diameter wide and high.
C23_PickerWithinSurface ==
    /\ PickerRadius <= colorPicker.x
    /\ colorPicker.x <= Max2(PickerRadius, view.cssWidth - PickerRadius)
    /\ PickerRadius <= colorPicker.y
    /\ colorPicker.y <= Max2(PickerRadius, view.cssHeight - PickerRadius)
    /\ (view.cssWidth >= 2 * PickerRadius /\ view.cssHeight >= 2 * PickerRadius) =>
           /\ colorPicker.x + PickerRadius <= view.cssWidth
           /\ colorPicker.y + PickerRadius <= view.cssHeight

\* a drag moved the picker and the surface then lost its size
C23_Witness ==
    /\ colorPicker.isDragging
    /\ colorPicker.x # colorPicker.dragStartX
    /\ view.cssWidth = 0
    /\ colorPicker.x = PickerRadius

\* C24: a frame advances every pulse that is in the collection at its start
\* exactly once, also when it removes other pulses: what the frame drew and
\* removed are the pulses of the start, each advanced by the step of the
\* frame, as often as they occurred, and the collection keeps those it drew
\* in their order.
Count(seq, r) == Cardinality({ k \in 1..Len(seq) : seq[k] = r })

C24_EachPulseAdvancedOnce ==
    [][ \A gap \in FrameGaps :
            Frame(gap) =>
                LET step == frame'.step
                    advanced == frame'.drawn \o frame'.removed
                    moved == [i \in 1..Len(pulses) |-> Advance(pulses[i], step)]
                IN /\ Len(advanced) = Len(pulses)
                   /\ \A i \in 1..Len(pulses) : Count(advanced, moved[i]) = Count(moved, moved[i])
                   /\ pulses' = SelectSeq(moved, LAMBDA pulse : pulse.age < PULSE_LIFETIME) ]_vars

\* a frame removed the first pulse of the collection and advanced the one
\* after it
C24_Witness ==
    /\ Len(frame.removed) = 1
    /\ Len(frame.drawn) = 1
    /\ pulses = frame.drawn
    /\ pulses[1].age < frame.removed[1].age

\* C25: the collection is ordered oldest first: ages do not increase along
\* the array, a new pulse being appended with age 0; so a frame removes
\* pulses from the front, and no pulse it removed is younger than one that
\* remains.
C25_OldestFirst ==
    /\ [](\A i, j \in 1..Len(pulses) : i < j => pulses[i].age >= pulses[j].age)
    /\ [](\A i \in 1..Len(frame.removed), j \in 1..Len(pulses) :
              frame.removed[i].age >= pulses[j].age)
    /\ [][ /\ Len(pulses') > Len(pulses) =>
                /\ pulses'[Len(pulses')].age = 0
                /\ SubSeq(pulses', 1, Len(pulses)) = pulses
           /\ \A gap \in FrameGaps :
                Frame(gap) =>
                    LET gone == Len(frame'.removed)
                    IN /\ Len(pulses') = Len(pulses) - gone
                       /\ \A k \in 1..Len(pulses') :
                             pulses'[k] = Advance(pulses[k + gone], frame'.step) ]_vars

\* two pulses of different ages, the older one first
C25_Witness ==
    /\ Len(pulses) = 2
    /\ pulses[1].age > pulses[2].age
    /\ pulses[2].age > 0

\* C26: while frames keep occurring with a positive step every pulse that is
\* spawned is eventually removed: a collection of n pulses or more eventually
\* has fewer than n, a pulse at the front is eventually among the removed,
\* and once no pulse is spawned any more the collection becomes and stays
\* empty.
C26_PulsesEventuallyRemoved ==
    /\ \A n \in 1..(MaxPulses + 1) : (Len(pulses) >= n) ~> (Len(pulses) < n)
    /\ (pulses # <<>>) ~> (frame.removed # <<>>)
    /\ <>[](pulses = <<>>)

\* a frame has removed the last pulse of the collection
C26_Witness ==
    /\ pulses = <<>>
    /\ frame.removed # <<>>
    /\ frame.step > 0

\* C27: a client has at most one socket that is connecting or open and at
\* most one pending reconnect timer, and never both; the socket variable is
\* the live socket; and a socket is created only by the timer that the close
\* of the previous socket scheduled.
LiveSocks == { s \in SockIds : socks[s] \in {"CONNECTING", "OPEN"} }

C27_OneConnectionAtATime ==
    /\ [](Cardinality(LiveSocks) + Len(timers) = 1)
    /\ [](LiveSocks \subseteq {socket})
    /\ [][ (LiveSocks' \ LiveSocks # {}) =>
              /\ TimerFired
              /\ LiveSocks = {}
              /\ Len(timers) = 1 ]_vars

\* a reconnected socket has closed and its timer is pending
C27_Witness ==
    /\ attempts >= 2
    /\ LiveSocks = {}
    /\ Len(timers) = 1

\* C28: the client accepts what the relay validates: every message the relay
\* broadcasts is accepted by the client that receives it and spawns exactly
\* one pulse there; no relayed message is discarded.
C28_RelayedIsAccepted ==
    [][ Downlink =>
            /\ Len(pulses') = Len(pulses) + 1
            /\ inbound' # "discarded" ]_vars

====
